---- MODULE Spec2Model ----
(***************************************************************************)
(* Orchard: a Monte Carlo estimator of the win rate of the orchard game.   *)
(* The model follows src/src/main.rs: the Game state machine (new, apply,  *)
(* full_game) and the parallel estimator (estimate_win_rate).              *)
(***************************************************************************)
EXTENDS Integers, Sequences, FiniteSets, TLC

\* ------------------------------------------------------------------ bounds
\* Largest initial bird_position explored (the code accepts any u8).
MaxBird == 6
\* Cap on the number of rolls one trial of full_game is followed for.
MaxRolls == 24
\* Number of trials of one estimate (stands for n = 1_000_000_000).
NTrials == 3
\* Number of threads in the rayon pool.
NWorkers == 2
\* Largest bird_position argument explored for estimate_win_rate.
MaxEstBird == 2

\* ------------------------------------------------------------- constants
\* u8 arithmetic is modulo 2^8.
U8Mod == 256
\* Number of orchards (orchards: [u8; 4]).
NumOrchards == 4
\* Apples per orchard in Game::new.
InitialApples == 4
\* The trial count of estimate_win_rate: let n = 1_000_000_000.
TrialCount == 1000000000
\* i32::MAX, the largest value of the integer type the tallies default to.
I32Max == 2147483647
\* i32::MIN.
I32Min == (-I32Max) - 1

\* --------------------------------------------------------------- DieRoll
DieRoll == {"Red", "Green", "Blue", "Yellow", "Basket", "Bird"}

\* impl Distribution<DieRoll> for Standard: the match on Uniform::new(0, 6).
Sample(k) ==
    CASE k = 0 -> "Red"
      [] k = 1 -> "Green"
      [] k = 2 -> "Blue"
      [] k = 3 -> "Yellow"
      [] k = 4 -> "Basket"
      [] k = 5 -> "Bird"

\* A plausible slip: the discriminants of two colours shifted by one.
AsUsizeShifted(roll) ==
    CASE roll = "Red" -> 1
      [] roll = "Green" -> 2
      [] roll = "Blue" -> 3
      [] roll = "Yellow" -> 0
      [] roll = "Basket" -> 4
      [] roll = "Bird" -> 5

\* `roll as usize`: the discriminants of enum DieRoll.
AsUsize(roll) ==
    CASE roll = "Red" -> 0
      [] roll = "Green" -> 1
      [] roll = "Blue" -> 2
      [] roll = "Yellow" -> 3
      [] roll = "Basket" -> 4
      [] roll = "Bird" -> 5

\* ------------------------------------------------------------ u8 helpers
\* A plausible slip: wrapping_sub instead of saturating_sub.
WrappingSub(x, y) == (x - y + U8Mod) % U8Mod

\* A plausible slip: saturating_add instead of saturating_sub.
SaturatingAdd(x, y) == IF x + y >= U8Mod THEN U8Mod - 1 ELSE x + y

\* A plausible slip: the step doubled, saturating_sub(2 * y).
SaturatingSubTwice(x, y) == IF x >= 2 * y THEN x - 2 * y ELSE 0

\* A plausible slip: the result of saturating_sub is dropped, not stored.
DiscardedSub(x, y) == x

\* u8::saturating_sub.
SaturatingSub(x, y) == IF x >= y THEN x - y ELSE 0

OrchardIdx == 0 .. (NumOrchards - 1)

\* The mathematical sum of the four piles.
PileSum(o) == o[0] + o[1] + o[2] + o[3]

\* self.orchards.iter().sum::<u8>() with 8-bit wrap-around.
SumU8(o) == PileSum(o) % U8Mod

\* ------------------------------------------------------------------ Game
\* Game::new.
New(bird_position) ==
    [bird_position |-> bird_position,
     orchards |-> [i \in OrchardIdx |-> InitialApples]]

\* A plausible slip: the first of several equal maxima instead of the last.
FirstLargestPile(o) ==
    CHOOSE i \in OrchardIdx :
        /\ \A j \in OrchardIdx : o[j] <= o[i]
        /\ \A j \in OrchardIdx : j < i => o[j] < o[i]

\* A plausible slip: min() instead of max().
SmallestPile(o) ==
    CHOOSE i \in OrchardIdx :
        /\ \A j \in OrchardIdx : o[j] >= o[i]
        /\ \A j \in OrchardIdx : j > i => o[j] > o[i]

\* self.orchards.iter_mut().max(): Iterator::max returns the LAST element
\* among several equally maximum ones.
LargestPile(o) ==
    CHOOSE i \in OrchardIdx :
        /\ \A j \in OrchardIdx : o[j] <= o[i]
        /\ \A j \in OrchardIdx : j > i => o[j] < o[i]

\* The match on roll in Game::apply: the mutation of the state.
Effect(g, roll) ==
    IF roll \in {"Red", "Green", "Blue", "Yellow"}
    THEN [g EXCEPT !.orchards[AsUsize(roll)] = SaturatingSub(@, 1)]
    ELSE IF roll = "Basket"
    THEN [g EXCEPT !.orchards[LargestPile(g.orchards)] = SaturatingSub(@, 1)]
    ELSE [g EXCEPT !.bird_position = SaturatingSub(@, 1)]

\* A plausible slip: the two terminal checks in the opposite order.
TerminalCheckWonFirst(g) ==
    IF SumU8(g.orchards) = 0 THEN "Won"
    ELSE IF g.bird_position = 0 THEN "Lost"
    ELSE "None"

\* A plausible slip: the branch that returns Won is missing.
TerminalCheckNoWin(g) ==
    IF g.bird_position = 0 THEN "Lost" ELSE "None"

\* The if / else if / else at the end of Game::apply.
TerminalCheck(g) ==
    IF g.bird_position = 0 THEN "Lost"
    ELSE IF SumU8(g.orchards) = 0 THEN "Won"
    ELSE "None"

\* A plausible slip: the loss is only detected when the bird moved.
ApplyLossOnBirdOnly(g, roll) ==
    LET h == Effect(g, roll)
    IN  [game |-> h,
         ret |-> IF roll = "Bird" /\ h.bird_position = 0 THEN "Lost"
                 ELSE IF SumU8(h.orchards) = 0 THEN "Won"
                 ELSE "None"]

\* Game::apply: the mutated state and the returned Option<Outcome>.
Apply(g, roll) ==
    LET h == Effect(g, roll)
    IN  [game |-> h, ret |-> TerminalCheck(h)]

\* ----------------------------------------------------------------- state
VARIABLES
    mode,      \* which entry point runs: "apply", "full_game" or "estimate"
    g0,        \* the bird_position argument
    game,      \* the Game value
    prev,      \* the Game value before the last apply
    lastRoll,  \* the roll of the last apply ("none" before the first)
    ret,       \* what the last apply returned: "None", "Won" or "Lost"
    pc,        \* full_game: "loop" or "done"
    rolls,     \* full_game: number of apply calls made
    moves,     \* full_game: number of apply calls that changed the state
    n,         \* estimate_win_rate: the number of trials
    segs,      \* the sub-ranges 0..n is currently split into, with tallies
    wpc,       \* per worker: "idle", or "trial" inside the map closure
    wtrial,    \* per worker: the index of the trial its closure runs
    wrng,      \* per worker: the generator its closure holds (0: none)
    outcome,   \* per trial: "None" until run, then "Won" or "Lost"
    ranBy,     \* per trial: the workers that ran its closure
    rngUsers,  \* per generator: the workers that drew rolls from it
    epc,       \* estimate_win_rate: "reduce", "done" or "reported"
    result,    \* the (won, lost) pair bound by the let
    rate,      \* win_rate_percent as the quotient num / den, or NaN
    birds,     \* full_game: number of Bird rolls applied
    gameB,     \* side-by-side trials: the Game started one position higher
    pcB,       \* side-by-side trials: "loop" or "done" of that trial
    retB,      \* side-by-side trials: what its last apply returned
    rollsB     \* side-by-side trials: number of apply calls it made

gameVars == <<g0, game, prev, lastRoll, ret>>
pairVars == <<gameB, pcB, retB, rollsB>>
trialVars == <<pc, rolls, moves, birds, pairVars>>
estVars == <<n, segs, wpc, wtrial, wrng, outcome, ranBy, rngUsers, epc, result, rate>>
vars == <<mode, gameVars, trialVars, estVars>>

Workers == 1 .. NWorkers
Trials == 0 .. (NTrials - 1)

\* win_rate_percent before line 110 has run.
NoRate == [kind |-> "none", num |-> 0, den |-> 1]

\* The estimator's state before estimate_win_rate is entered.
EstIdle ==
    /\ n = 0
    /\ segs = {}
    /\ wpc = [w \in Workers |-> "idle"]
    /\ wtrial = [w \in Workers |-> 0]
    /\ wrng = [w \in Workers |-> 0]
    /\ outcome = [i \in Trials |-> "None"]
    /\ ranBy = [i \in Trials |-> {}]
    /\ rngUsers = [r \in Workers |-> {}]
    /\ epc = "reduce"
    /\ result = <<0, 0>>
    /\ rate = NoRate

\* The state right after Game::new(g).
InitGame(g) ==
    /\ g0 = g
    /\ game = New(g)
    /\ prev = New(g)
    /\ lastRoll = "none"
    /\ ret = "None"
    /\ pc = "loop"
    /\ rolls = 0
    /\ moves = 0
    /\ birds = 0
    /\ gameB = New(g)
    /\ pcB = "done"
    /\ retB = "None"
    /\ rollsB = 0

\* One call of game.apply(roll) on the current Game value.
ApplyStep(roll) ==
    LET r == Apply(game, roll)
    IN  /\ game' = r.game
        /\ ret' = r.ret
        /\ prev' = game
        /\ lastRoll' = roll
        /\ g0' = g0

\* ---- Game::apply called freely on a Game built by Game::new ------------
InitApply ==
    /\ mode = "apply"
    /\ EstIdle
    /\ \E g \in 0 .. MaxBird : InitGame(g)

ApplyRoll ==
    /\ mode = "apply"
    /\ \E k \in 0 .. 5 : ApplyStep(Sample(k))
    /\ UNCHANGED <<mode, trialVars, estVars>>

NextApply == ApplyRoll

SpecApply == InitApply /\ [][NextApply]_vars

\* ---- Game::full_game ---------------------------------------------------
Init ==
    /\ mode = "full_game"
    /\ EstIdle
    /\ \E g \in 0 .. MaxBird : InitGame(g)

\* One iteration of the loop in full_game: rng.gen(), apply, return if Some.
FullGameRoll ==
    /\ mode = "full_game"
    /\ pc = "loop"
    /\ rolls < MaxRolls
    /\ \E k \in 0 .. 5 : ApplyStep(Sample(k))
    /\ rolls' = rolls + 1
    /\ moves' = IF game' # game THEN moves + 1 ELSE moves
    /\ birds' = IF lastRoll' = "Bird" THEN birds + 1 ELSE birds
    /\ pc' = IF ret' # "None" THEN "done" ELSE "loop"
    /\ UNCHANGED <<mode, estVars, pairVars>>

Next == FullGameRoll

Spec == Init /\ [][Next]_vars

\* ---- Game::full_game under a fair die ----------------------------------
\* One iteration of the loop in full_game in which rng.gen() yields face k;
\* the roll counters are left aside so that the loop may run for ever.
RollFace(k) ==
    /\ mode = "full_game"
    /\ pc = "loop"
    /\ ApplyStep(Sample(k))
    /\ pc' = IF ret' # "None" THEN "done" ELSE "loop"
    /\ UNCHANGED <<mode, estVars, rolls, moves, birds, pairVars>>

NextFair == \E k \in 0 .. 5 : RollFace(k)

\* Every face keeps being rolled as long as the loop runs.
DieFair == \A k \in 0 .. 5 : WF_vars(RollFace(k))

SpecFair == Init /\ [][NextFair]_vars /\ DieFair

\* ---- two trials of Game::full_game fed the same rolls -------------------
\* `game` starts at bird_position g and `gameB` at g + 1.
InitPair ==
    /\ mode = "pair"
    /\ EstIdle
    /\ \E g \in 0 .. MaxBird :
          /\ g0 = g
          /\ game = New(g)
          /\ prev = New(g)
          /\ gameB = New(g + 1)
    /\ lastRoll = "none"
    /\ ret = "None"
    /\ retB = "None"
    /\ pc = "loop"
    /\ pcB = "loop"
    /\ rolls = 0
    /\ rollsB = 0
    /\ moves = 0
    /\ birds = 0

\* One roll handed to both loops; a loop that has returned ignores it. The
\* pair is followed until the trial started at g returns.
PairRoll ==
    /\ mode = "pair"
    /\ pc = "loop"
    /\ rolls < MaxRolls
    /\ \E k \in 0 .. 5 :
          /\ ApplyStep(Sample(k))
          /\ IF pcB = "loop"
             THEN LET r == Apply(gameB, Sample(k))
                  IN  /\ gameB' = r.game
                      /\ retB' = r.ret
                      /\ rollsB' = rollsB + 1
                      /\ pcB' = IF r.ret # "None" THEN "done" ELSE "loop"
             ELSE UNCHANGED pairVars
    /\ rolls' = rolls + 1
    /\ pc' = IF ret' # "None" THEN "done" ELSE "loop"
    /\ UNCHANGED <<mode, moves, birds, estVars>>

NextPair == PairRoll

SpecPair == InitPair /\ [][NextPair]_vars

\* ---- estimate_win_rate -------------------------------------------------
\* The rolls one generator may hand to a trial: each stream is the periodic
\* sequence of Uniform::new(0, 6) samples a trial draws.
RollStreams == {<<4>>, <<5>>, <<0, 1, 2, 3>>, <<4, 5>>, <<0, 4, 4, 4, 4, 4>>, <<0>>}

RECURSIVE PlayFrom(_, _, _, _)
\* The loop of full_game on the rolls of a stream, followed for `fuel` rolls;
\* "None" when it has not returned by then.
PlayFrom(g, stream, i, fuel) ==
    IF fuel = 0 THEN "None"
    ELSE LET r == Apply(g, Sample(stream[i]))
         IN  IF r.ret # "None" THEN r.ret
             ELSE PlayFrom(r.game, stream, (i % Len(stream)) + 1, fuel - 1)

\* Game::full_game(bird_position, rng) as a function of the rolls drawn.
FullGame(bird_position, stream) ==
    PlayFrom(New(bird_position), stream, 1, MaxRolls)

\* full_game evaluated once per bird_position argument and stream.
TrialOutcome ==
    [b \in 0 .. MaxEstBird |-> [st \in RollStreams |-> FullGame(b, st)]]

\* A plausible slip: one generator shared by all the threads.
SharedRng(w) == 1

\* rand::thread_rng(): the handle to the calling thread's own generator.
ThreadRng(w) == w

\* A plausible slip: a lost trial counted, a won trial counted twice.
MapOutcomeBoth(o) == IF o = "Won" THEN <<1, 1>> ELSE <<0, 1>>

\* The match in the map closure: Won => (1, 0), Lost => (0, 1).
MapOutcome(o) == IF o = "Won" THEN <<1, 0>> ELSE <<0, 1>>

\* A plausible slip: an "identity" that is not neutral for the sum.
IdentityOne == <<1, 0>>

\* The identity closure of reduce: || (0, 0).
Identity == <<0, 0>>

\* A plausible slip: a minus sign in the second component.
ReduceOpMinus(a, b) == <<a[1] + b[1], a[2] - b[2]>>

\* i32 addition, wrapping around in two's complement on overflow.
AddI32(x, y) ==
    IF y >= 0
    THEN IF x > I32Max - y THEN I32Min + (x - (I32Max - y) - 1) ELSE x + y
    ELSE IF x < I32Min - y THEN I32Max - ((I32Min - y) - x - 1) ELSE x + y

\* The reduce closure: |a, b| (a.0 + b.0, a.1 + b.1), on i32 pairs.
ReduceOp(a, b) == <<AddI32(a[1], b[1]), AddI32(a[2], b[2])>>

\* A sub-range lo..hi of the trials: `next` is the first trial not yet
\* folded, `acc` the partial tally, `owner` the worker folding it (0: not
\* being folded), `leaves` the number of sub-batches merged into it.
NewSeg(lo, hi) ==
    [lo |-> lo, hi |-> hi, next |-> lo, acc |-> Identity, owner |-> 0, leaves |-> 1]

\* The worker is inside the sequential fold of a sub-range.
Folding(w) == \E s \in segs : s.owner = w /\ s.next < s.hi

InitEst ==
    /\ mode = "estimate"
    /\ \E g \in 0 .. MaxEstBird : InitGame(g)
    /\ n \in 0 .. NTrials
    /\ segs = {NewSeg(0, n)}
    /\ wpc = [w \in Workers |-> "idle"]
    /\ wtrial = [w \in Workers |-> 0]
    /\ wrng = [w \in Workers |-> 0]
    /\ outcome = [i \in Trials |-> "None"]
    /\ ranBy = [i \in Trials |-> {}]
    /\ rngUsers = [r \in Workers |-> {}]
    /\ epc = "reduce"
    /\ result = <<0, 0>>
    /\ rate = NoRate

\* into_par_iter: an untouched sub-range is split in two for another thread.
Split(s, k) ==
    /\ mode = "estimate" /\ epc = "reduce"
    /\ s \in segs /\ s.owner = 0 /\ s.next = s.lo
    /\ k \in (s.lo + 1) .. (s.hi - 1)
    /\ segs' = (segs \ {s}) \cup {NewSeg(s.lo, k), NewSeg(k, s.hi)}
    /\ UNCHANGED <<mode, gameVars, trialVars, rate, n, wpc, wtrial, wrng, outcome,
                   ranBy, rngUsers, epc, result>>

\* A thread takes an untouched sub-range and starts its fold from identity.
Claim(w, s) ==
    /\ mode = "estimate" /\ epc = "reduce"
    /\ wpc[w] = "idle" /\ ~Folding(w)
    /\ s \in segs /\ s.owner = 0 /\ s.next = s.lo /\ s.next < s.hi
    /\ segs' = (segs \ {s}) \cup {[s EXCEPT !.owner = w, !.acc = Identity]}
    /\ UNCHANGED <<mode, gameVars, trialVars, rate, n, wpc, wtrial, wrng, outcome,
                   ranBy, rngUsers, epc, result>>

\* The map closure is entered for the next trial: let mut rng = thread_rng().
BeginTrial(w) ==
    /\ mode = "estimate" /\ epc = "reduce"
    /\ wpc[w] = "idle"
    /\ \E s \in segs :
          /\ s.owner = w /\ s.next < s.hi
          /\ wtrial' = [wtrial EXCEPT ![w] = s.next]
    /\ wpc' = [wpc EXCEPT ![w] = "trial"]
    /\ wrng' = [wrng EXCEPT ![w] = ThreadRng(w)]
    /\ UNCHANGED <<mode, gameVars, trialVars, rate, n, segs, outcome, ranBy,
                   rngUsers, epc, result>>

\* The rest of the map closure and the fold step: full_game on a fresh Game
\* with the rolls of the held generator, the outcome mapped to a pair and
\* added to the sub-range's tally.
PlayTrial(w) ==
    /\ mode = "estimate" /\ epc = "reduce"
    /\ wpc[w] = "trial"
    /\ \E stream \in RollStreams, s \in segs :
          LET o == TrialOutcome[g0][stream]
          IN  /\ o # "None"
              /\ s.lo <= wtrial[w] /\ wtrial[w] < s.hi
              /\ outcome' = [outcome EXCEPT ![wtrial[w]] = o]
              /\ segs' = (segs \ {s}) \cup
                    {[s EXCEPT !.acc = ReduceOp(s.acc, MapOutcome(o)),
                               !.next = wtrial[w] + 1,
                               !.owner = IF wtrial[w] + 1 = s.hi THEN 0 ELSE @]}
    /\ ranBy' = [ranBy EXCEPT ![wtrial[w]] = @ \cup {w}]
    /\ rngUsers' = [rngUsers EXCEPT ![wrng[w]] = @ \cup {w}]
    /\ wpc' = [wpc EXCEPT ![w] = "idle"]
    /\ wrng' = [wrng EXCEPT ![w] = 0]
    /\ wtrial' = [wtrial EXCEPT ![w] = 0]
    /\ UNCHANGED <<mode, gameVars, trialVars, rate, n, epc, result>>

\* reduce: a thread combines the tallies of two finished adjacent sub-ranges.
Merge(w, a, b) ==
    /\ mode = "estimate" /\ epc = "reduce"
    /\ wpc[w] = "idle" /\ ~Folding(w)
    /\ a \in segs /\ b \in segs
    /\ a.hi = b.lo /\ a.next = a.hi /\ b.next = b.hi
    /\ a.lo < a.hi /\ b.lo < b.hi
    /\ segs' = (segs \ {a, b}) \cup
          {[lo |-> a.lo, hi |-> b.hi, next |-> b.hi,
            acc |-> ReduceOp(a.acc, b.acc), owner |-> 0,
            leaves |-> a.leaves + b.leaves]}
    /\ UNCHANGED <<mode, gameVars, trialVars, rate, n, wpc, wtrial, wrng, outcome,
                   ranBy, rngUsers, epc, result>>

\* A plausible slip: the result is taken without waiting for the join, as
\* soon as the first sub-range has been folded.
FinishNoBarrier ==
    /\ mode = "estimate" /\ epc = "reduce"
    /\ \E s \in segs :
          /\ s.lo = 0 /\ s.next = s.hi
          /\ result' = s.acc
    /\ epc' = "done"
    /\ UNCHANGED <<mode, gameVars, trialVars, rate, n, segs, wpc, wtrial, wrng,
                   outcome, ranBy, rngUsers>>

\* The join completes: let (won, lost) = ... binds the one remaining tally.
Finish ==
    /\ mode = "estimate" /\ epc = "reduce"
    /\ \A w \in Workers : wpc[w] = "idle"
    /\ \E s \in segs :
          /\ segs = {s}
          /\ s.lo = 0 /\ s.hi = n /\ s.next = n
          /\ result' = s.acc
    /\ epc' = "done"
    /\ UNCHANGED <<mode, gameVars, trialVars, rate, n, segs, wpc, wtrial, wrng,
                   outcome, ranBy, rngUsers>>

\* 100.0 * won as f64 / (won + lost) as f64: 0.0 / 0.0 is NaN and a positive
\* numerator over 0.0 is infinite; otherwise the quotient num / den.
WinRatePercent(won, lost) ==
    LET d == AddI32(won, lost)
    IN  IF d = 0
        THEN [kind |-> IF won = 0 THEN "NaN" ELSE "inf", num |-> 100 * won, den |-> 0]
        ELSE [kind |-> "num", num |-> 100 * won, den |-> d]

\* Lines 110-111: the win rate is computed from (won, lost) and printed.
Report ==
    /\ mode = "estimate" /\ epc = "done"
    /\ rate' = WinRatePercent(result[1], result[2])
    /\ epc' = "reported"
    /\ UNCHANGED <<mode, gameVars, trialVars, n, segs, wpc, wtrial, wrng,
                   outcome, ranBy, rngUsers, result>>

NextEst ==
    \/ \E s \in segs, k \in 1 .. NTrials : Split(s, k)
    \/ \E w \in Workers, s \in segs : Claim(w, s)
    \/ \E w \in Workers : BeginTrial(w)
    \/ \E w \in Workers : PlayTrial(w)
    \/ \E w \in Workers, a \in segs, b \in segs : Merge(w, a, b)
    \/ Finish
    \/ Report

SpecEst == InitEst /\ [][NextEst]_vars

\* ======================================================================
\* Properties of Game::apply (checked under SpecApply)
\* ======================================================================
Colours == {"Red", "Green", "Blue", "Yellow"}
Applied == lastRoll # "none"

\* C1: apply returns its result from the state after the roll's effect:
\* Lost exactly when the resulting bird_position is 0 (even if the piles sum
\* to 0 too), Won exactly when the resulting bird_position is positive and
\* the piles sum to 0, None exactly when both are positive.
C1_ApplyResult ==
    Applied =>
        /\ (ret = "Lost") <=> (game.bird_position = 0)
        /\ (ret = "Won") <=> (game.bird_position > 0 /\ PileSum(game.orchards) = 0)
        /\ (ret = "None") <=> (game.bird_position > 0 /\ PileSum(game.orchards) > 0)

\* The priority case of C1: both terminal conditions hold after an apply.
C1_Witness ==
    /\ Applied
    /\ game.bird_position = 0
    /\ PileSum(game.orchards) = 0
    /\ ret = "Lost"

\* C3: a roll on a counter that is already 0 leaves it at 0 (colour roll on
\* an empty pile, Basket on four empty piles, Bird at bird_position 0), and
\* every counter stays within 0..255.
C3_Saturation ==
    /\ game.bird_position \in 0 .. (U8Mod - 1)
    /\ \A i \in OrchardIdx : game.orchards[i] \in 0 .. (U8Mod - 1)
    /\ (lastRoll \in Colours /\ prev.orchards[AsUsize(lastRoll)] = 0)
          => game.orchards[AsUsize(lastRoll)] = 0
    /\ (lastRoll = "Basket" /\ \A i \in OrchardIdx : prev.orchards[i] = 0)
          => \A i \in OrchardIdx : game.orchards[i] = 0
    /\ (lastRoll = "Bird" /\ prev.bird_position = 0)
          => game.bird_position = 0

\* A Basket roll was applied to four empty piles while the bird stood at 0.
C3_Witness ==
    /\ lastRoll = "Basket"
    /\ \A i \in OrchardIdx : prev.orchards[i] = 0 /\ game.orchards[i] = 0
    /\ prev.bird_position = 0

\* C4: when at least one pile is non-zero, a Basket roll decrements by
\* exactly 1 a pile holding the maximum of the four piles and leaves the
\* other three piles and bird_position unchanged.
C4_BasketPolicy ==
    (lastRoll = "Basket" /\ \E i \in OrchardIdx : prev.orchards[i] > 0) =>
        /\ game.bird_position = prev.bird_position
        /\ \E i \in OrchardIdx :
              /\ \A j \in OrchardIdx : prev.orchards[j] <= prev.orchards[i]
              /\ game.orchards[i] = prev.orchards[i] - 1
              /\ \A j \in OrchardIdx \ {i} : game.orchards[j] = prev.orchards[j]

\* The example of the specification: piles [4,1,1,1] become [3,1,1,1].
C4_Witness ==
    /\ lastRoll = "Basket"
    /\ prev.orchards = [i \in OrchardIdx |-> IF i = 0 THEN 4 ELSE 1]
    /\ game.orchards = [i \in OrchardIdx |-> IF i = 0 THEN 3 ELSE 1]

\* C5: a colour roll changes only the pile at its index (Red 0, Green 1,
\* Blue 2, Yellow 3), lowering it by 1 when positive; a Bird roll changes
\* only bird_position, lowering it by 1 when positive.
ColourIndex(roll) ==
    CASE roll = "Red" -> 0
      [] roll = "Green" -> 1
      [] roll = "Blue" -> 2
      [] roll = "Yellow" -> 3

C5_Frame ==
    /\ lastRoll \in Colours =>
          /\ game.bird_position = prev.bird_position
          /\ \A j \in OrchardIdx \ {ColourIndex(lastRoll)} :
                game.orchards[j] = prev.orchards[j]
          /\ game.orchards[ColourIndex(lastRoll)] =
                IF prev.orchards[ColourIndex(lastRoll)] > 0
                THEN prev.orchards[ColourIndex(lastRoll)] - 1
                ELSE 0
    /\ lastRoll = "Bird" =>
          /\ game.orchards = prev.orchards
          /\ game.bird_position =
                IF prev.bird_position > 0 THEN prev.bird_position - 1 ELSE 0

\* A Yellow roll lowered the fourth pile from 2 to 1.
C5_Witness ==
    /\ lastRoll = "Yellow"
    /\ prev.orchards[3] = 2
    /\ game.orchards[3] = 1
    /\ game.bird_position = prev.bird_position

\* C7: in every state reachable from Game::new(g) by any rolls, each pile is
\* in 0..4, bird_position is in 0..g, and the pile sum is at most 16, so the
\* 8-bit sum of the terminal check equals the true sum.
C7_Bounds ==
    /\ \A i \in OrchardIdx : game.orchards[i] \in 0 .. InitialApples
    /\ game.bird_position \in 0 .. g0
    /\ PileSum(game.orchards) <= NumOrchards * InitialApples
    /\ SumU8(game.orchards) = PileSum(game.orchards)

\* Rolls were applied past both terminal conditions and the bounds held.
C7_Witness ==
    /\ Applied
    /\ g0 = MaxBird
    /\ game.bird_position = 0
    /\ PileSum(game.orchards) = 0

\* ======================================================================
\* Properties of Game::full_game (checked under Spec)
\* ======================================================================
InitialSum == NumOrchards * InitialApples

\* C2 as stated: a trial returns within at most bird_position + sum(piles)
\* roll applications, whatever the rolls.
C2_Original == rolls <= g0 + InitialSum

\* C2 as amended: a trial returns within at most bird_position + sum(piles)
\* roll applications that change the state; rolls that hit an empty pile
\* change nothing and their number has no bound.
C2_Amended ==
    /\ moves <= g0 + InitialSum
    /\ pc = "loop" => moves < g0 + InitialSum
    /\ moves <= rolls

\* A trial that won with wasted rolls on the way, beyond the stated bound.
C2_Witness ==
    /\ pc = "done"
    /\ ret = "Won"
    /\ rolls > g0 + InitialSum
    /\ moves = InitialSum

\* C6: a game created with Game::new(0) is Lost at the first terminal
\* check: the first apply returns Lost whatever the face, the trial returns
\* Lost after exactly one roll and never returns Won.
C6_ImmediateLoss ==
    g0 = 0 =>
        /\ ret # "Won"
        /\ rolls <= 1
        /\ rolls = 1 => (pc = "done" /\ ret = "Lost")
        /\ pc = "done" => (rolls = 1 /\ ret = "Lost")

\* The trial started at 0 returned Lost on a roll that was not Bird.
C6_Witness ==
    /\ g0 = 0
    /\ pc = "done"
    /\ rolls = 1
    /\ lastRoll = "Green"
    /\ ret = "Lost"

\* ======================================================================
\* Properties of estimate_win_rate (checked under SpecEst)
\* ======================================================================
RECURSIVE SeqTally(_, _)
\* The tally of trials lo..hi-1 folded in one batch, in order, from identity.
SeqTally(lo, hi) ==
    IF hi <= lo THEN Identity
    ELSE ReduceOp(SeqTally(lo, hi - 1), MapOutcome(outcome[hi - 1]))

\* C8: for the outcomes the trials produced, however the N trials are
\* grouped into sub-batches, each tallied from the identity (0, 0) and the
\* tallies merged by component-wise addition, every partial tally and the
\* final total equal the tally of the same trials folded in one batch.
C8_ReductionAssociativity ==
    /\ \A s \in segs : s.acc = SeqTally(s.lo, s.next)
    /\ epc = "done" => result = SeqTally(0, n)

\* A finished estimate whose total was merged from three sub-batches and
\* holds both won and lost trials.
C8_Witness ==
    /\ epc = "done"
    /\ n >= 3
    /\ \E s \in segs : s.leaves >= 3
    /\ result[1] > 0
    /\ result[2] > 0

\* C9: the final (won, lost) depends on the per-trial outcomes only, not on
\* which worker ran which trial nor on the order of the merges: it is the
\* number of trials that returned Won and the number that returned Lost.
C9_SchedulingIndependence ==
    epc = "done" =>
        /\ result[1] = Cardinality({i \in 0 .. (n - 1) : outcome[i] = "Won"})
        /\ result[2] = Cardinality({i \in 0 .. (n - 1) : outcome[i] = "Lost"})

\* A finished estimate whose trials ran on different workers and whose
\* total was merged from their partial tallies.
C9_Witness ==
    /\ epc = "done"
    /\ ranBy[0] = {2}
    /\ ranBy[1] = {1}
    /\ \E s \in segs : s.leaves >= 2
    /\ result[1] > 0
    /\ result[2] > 0

\* C10: workers share no mutable state: a trial is run once, by one worker,
\* on a generator that belongs to that worker's thread and that no other
\* worker ever draws from; the tally a running trial will be added to is the
\* one its worker folds, and two running trials differ in trial, generator
\* and tally.
C10_NoSharedState ==
    /\ \A r \in Workers : rngUsers[r] \subseteq {r}
    /\ \A i \in Trials : Cardinality(ranBy[i]) <= 1
    /\ \A i \in Trials : (outcome[i] # "None") <=> (ranBy[i] # {})
    /\ \A w \in Workers : wpc[w] = "trial" =>
          /\ wrng[w] = w
          /\ ranBy[wtrial[w]] = {}
          /\ \E s \in segs : s.owner = w /\ s.next = wtrial[w] /\ wtrial[w] < s.hi
          /\ \A s \in segs : (s.lo <= wtrial[w] /\ wtrial[w] < s.hi) => s.owner = w
    /\ \A v, w \in Workers : (v # w /\ wpc[v] = "trial" /\ wpc[w] = "trial") =>
          /\ wtrial[v] # wtrial[w]
          /\ wrng[v] # wrng[w]
    /\ \A s, t \in segs : (s # t) => (s.hi <= t.lo \/ t.hi <= s.lo)

\* Two trials run at the same time on two workers, one of which has already
\* drawn from its generator.
C10_Witness ==
    /\ wpc[1] = "trial"
    /\ wpc[2] = "trial"
    /\ rngUsers[1] = {1}
    /\ wrng[1] = 1
    /\ wrng[2] = 2

\* ======================================================================
\* Further properties of estimate_win_rate (checked under SpecEst)
\* ======================================================================
\* C11: for a trial count > 0, when the win rate is computed
\* 0 <= won <= won + lost and won + lost > 0, so that
\* 0 <= 100 * won / (won + lost) <= 100.
C11_BoundedWinRate ==
    (epc = "reported" /\ n > 0) =>
        /\ 0 <= result[1]
        /\ result[1] <= result[1] + result[2]
        /\ result[1] + result[2] > 0
        /\ rate.kind = "num"
        /\ rate.den > 0
        /\ 0 <= rate.num
        /\ rate.num <= 100 * rate.den

\* A rate strictly between 0 and 100 was reported.
C11_Witness ==
    /\ epc = "reported"
    /\ n > 0
    /\ rate.kind = "num"
    /\ 0 < rate.num
    /\ rate.num < 100 * rate.den

Lowered(i) ==
    /\ game.orchards[i] = prev.orchards[i] - 1
    /\ \A j \in OrchardIdx \ {i} : game.orchards[j] = prev.orchards[j]

MaxPile(o) == CHOOSE m \in 0 .. (U8Mod - 1) :
    (\E i \in OrchardIdx : o[i] = m) /\ (\A i \in OrchardIdx : o[i] <= m)

BasketApplied == lastRoll = "Basket" /\ PileSum(prev.orchards) > 0

\* C13 as stated: among several piles tied for the maximum a Basket roll
\* lowers the one with the lowest index.
C13_Original ==
    BasketApplied =>
        \E i \in OrchardIdx :
            /\ Lowered(i)
            /\ prev.orchards[i] = MaxPile(prev.orchards)
            /\ \A j \in OrchardIdx : j < i => prev.orchards[j] < prev.orchards[i]

\* C13 as amended: among several piles tied for the maximum a Basket roll
\* lowers the last one, the tied pile with the highest index.
C13_Amended ==
    BasketApplied =>
        \E i \in OrchardIdx :
            /\ Lowered(i)
            /\ prev.orchards[i] = MaxPile(prev.orchards)
            /\ \A j \in OrchardIdx : j > i => prev.orchards[j] < prev.orchards[i]

\* A Basket roll on piles [4,4,4,4] gave [4,4,4,3].
C13_Witness ==
    /\ lastRoll = "Basket"
    /\ prev.orchards = [i \in OrchardIdx |-> 4]
    /\ game.orchards = [i \in OrchardIdx |-> IF i = 3 THEN 3 ELSE 4]

\* C15: an apply never raises bird_position or a pile, and lowers the total
\* bird_position + pile sum by 0 or by 1.
Total(g) == g.bird_position + PileSum(g.orchards)

C15_MonotoneStep ==
    Applied =>
        /\ game.bird_position <= prev.bird_position
        /\ \A i \in OrchardIdx : game.orchards[i] <= prev.orchards[i]
        /\ Total(prev) - Total(game) \in {0, 1}

\* A Bird roll lowered the total by 1 right after a Red roll that hit the
\* emptied first pile.
C15_Witness ==
    /\ lastRoll = "Bird"
    /\ Total(game) = Total(prev) - 1
    /\ game.orchards[0] = 0
    /\ game.bird_position > 0

\* ======================================================================
\* Further properties of Game::full_game (checked under Spec)
\* ======================================================================
\* C14: during a trial bird_position = 0 and pile sum = 0 never hold
\* together, so checking Won before Lost would return the same outcome.
C14_MutuallyExclusive ==
    /\ ~(game.bird_position = 0 /\ PileSum(game.orchards) = 0)
    /\ Applied =>
          ret = (IF PileSum(game.orchards) = 0 THEN "Won"
                 ELSE IF game.bird_position = 0 THEN "Lost"
                 ELSE "None")

\* A trial lost with a single apple left: one roll short of both conditions.
C14_Witness ==
    /\ pc = "done"
    /\ ret = "Lost"
    /\ game.bird_position = 0
    /\ PileSum(game.orchards) = 1

\* ======================================================================
\* Game::full_game under a fair die (checked under SpecFair)
\* ======================================================================
\* C16: if every die face keeps being rolled, a trial eventually returns a
\* terminal Outcome, for every initial bird_position.
C16_EventualTermination == <>(pc = "done")

\* A trial started at the largest position returned Lost with no apple
\* picked: only Bird rolls ended it.
C16_Witness ==
    /\ pc = "done"
    /\ ret = "Lost"
    /\ g0 = MaxBird
    /\ PileSum(game.orchards) = NumOrchards * InitialApples

\* ======================================================================
\* Two trials on the same rolls (checked under SpecPair)
\* ======================================================================
\* C17: on the same rolls, whenever the trial started at g returns Won the
\* trial started at g + 1 has returned Won too, after the same number of
\* rolls.
C17_MonotoneDifficulty ==
    (pc = "done" /\ ret = "Won") =>
        /\ pcB = "done"
        /\ retB = "Won"
        /\ rollsB = rolls

\* The trial started at 4 won after a Bird roll and a wasted roll, and so
\* did the trial started at 5.
C17_Witness ==
    /\ g0 = 4
    /\ gameB.bird_position = game.bird_position + 1
    /\ pc = "done" /\ ret = "Won"
    /\ pcB = "done" /\ retB = "Won"
    /\ game.bird_position < 4
    /\ rolls > NumOrchards * InitialApples + 1

\* ======================================================================
\* Further properties of estimate_win_rate (checked under SpecEst)
\* ======================================================================
RECURSIVE Contributions(_)
\* The component-wise sum of what trials 0..k-1 contributed.
Contributions(k) ==
    IF k = 0 THEN <<0, 0>>
    ELSE LET c == MapOutcome(outcome[k - 1])
             r == Contributions(k - 1)
         IN  <<r[1] + c[1], r[2] + c[2]>>

Joined == epc \in {"done", "reported"}

\* C18: the reduction completes only after all n trials have finished,
\* each run once and contributing (1, 0) or (0, 1); so won + lost = n, won
\* is the number of Won trials and lost the number of Lost trials.
C18_CountedOnce ==
    Joined =>
        /\ \A i \in 0 .. (n - 1) :
              /\ outcome[i] \in {"Won", "Lost"}
              /\ Cardinality(ranBy[i]) = 1
              /\ MapOutcome(outcome[i]) \in {<<1, 0>>, <<0, 1>>}
        /\ \A w \in Workers : wpc[w] = "idle"
        /\ result[1] + result[2] = n
        /\ result = Contributions(n)

\* All trials of a split estimate were joined, with both outcomes present.
C18_Witness ==
    /\ Joined
    /\ n >= 3
    /\ result[1] >= 1
    /\ result[2] >= 1
    /\ \E i, j \in 0 .. (n - 1) : ranBy[i] # ranBy[j]

\* C20: every partial tally has non-negative components whose sum is the
\* number of trials merged into it, at most n, and n stands for a count of
\* at most 1_000_000_000 <= i32::MAX; so no i32 addition of the reduction
\* or of won + lost wraps.
C20_NoOverflow ==
    /\ TrialCount <= I32Max
    /\ n <= TrialCount
    /\ \A s \in segs :
          /\ s.acc[1] >= 0 /\ s.acc[2] >= 0
          /\ s.acc[1] + s.acc[2] = s.next - s.lo
          /\ s.next - s.lo <= n
    /\ result[1] >= 0 /\ result[2] >= 0
    /\ result[1] + result[2] <= n
    /\ epc = "reported" => rate.den = result[1] + result[2]

\* A merged partial tally of two trials, one won and one lost.
C20_Witness ==
    \E s \in segs :
        /\ s.leaves >= 2
        /\ s.acc = <<1, 1>>
        /\ s.next - s.lo = 2

\* ======================================================================
\* Further properties of Game::full_game (checked under Spec)
\* ======================================================================
\* C19: from a non-terminal state a Basket roll lowers the pile sum by
\* exactly 1, a colour roll by 1 only if its own pile is non-empty (else by
\* 0); so a trial that returns Won applied at least 16 rolls and fewer Bird
\* rolls than its initial bird_position.
C19_BasketNeverWasted ==
    /\ (Applied /\ prev.bird_position > 0 /\ PileSum(prev.orchards) > 0) =>
          /\ lastRoll = "Basket" =>
                PileSum(game.orchards) = PileSum(prev.orchards) - 1
          /\ lastRoll \in Colours =>
                PileSum(game.orchards) =
                    IF prev.orchards[ColourIndex(lastRoll)] > 0
                    THEN PileSum(prev.orchards) - 1
                    ELSE PileSum(prev.orchards)
    /\ (pc = "done" /\ ret = "Won") =>
          /\ rolls >= NumOrchards * InitialApples
          /\ birds < g0

\* A won trial that ended on a Basket roll, with a wasted colour roll and
\* all but one of the Bird rolls it could afford.
C19_Witness ==
    /\ pc = "done"
    /\ ret = "Won"
    /\ lastRoll = "Basket"
    /\ g0 >= 2
    /\ birds = g0 - 1
    /\ rolls > NumOrchards * InitialApples + birds

====
